---- MODULE Spec2Model ----
(***************************************************************************)
(* Model of the persistent job-processing core of the scraper:             *)
(*   - PendingProjectStore   (src/src/pending_store.py)                    *)
(*   - the download retry wrappers (src/src/project_downloader.py,         *)
(*     src/src/download.py)                                                *)
(*   - the Phase 3 batch loop (src/phase3_main.py)                         *)
(*                                                                         *)
(* Strings are modelled by small integers: 0 is the empty/absent string    *)
(* (falsy in Python), 1.. are distinct non-empty strings.  The four        *)
(* 'estado' tags keep the program's own literals.                          *)
(***************************************************************************)
EXTENDS Integers, Sequences, FiniteSets, TLC

\* ------------------------------------------------------------------ bounds
MaxKeys == 2
MaxBatch == 2
MaxRetriesBound == 3
MaxFaults == 1
MaxNameLen == 5

\* Python's None, for a record without an integer 'id' and for "no preferred id".
None == -1

Urls == 1..MaxKeys
Names == {0, 1, 2}
DueDates == {0, 1}
Estados == {"pendiente", "en-proceso", "descargado", "error"}

\* One incoming item of add_or_update_projects: url 0 is a missing/empty url.
Item(u, n, d) == [url |-> u, name |-> n, due_date |-> d]

\* The incoming lists: every list of up to MaxBatch items that carry name 1 and
\* due_date 1, and every single item with any name and due_date.
PlainItems == {Item(u, 1, 1) : u \in 0..MaxKeys}
AnyItems == {Item(u, n, d) : u \in 0..1, n \in Names, d \in DueDates}

RECURSIVE SeqsUpTo(_, _)
SeqsUpTo(S, n) ==
    IF n = 0 THEN {<<>>}
    ELSE LET shorter == SeqsUpTo(S, n - 1)
         IN shorter \cup {Append(s, x) : s \in {t \in shorter : Len(t) = n - 1}, x \in S}

VARIABLES
    projects,    \* PendingProjectStore.projects of the running process
    disk,        \* pending_projects.json: [kind, data]
    lastOp,      \* the store operation performed last
    ret,         \* its return value (0 when it returns nothing)
    argUrls,     \* the non-empty urls of the last add_or_update_projects argument
    lastWrite,   \* what the last operation's _save did: "none", "ok", "unchanged", "corrupt"
    issued,      \* history: issued[i] is the url of the first record given id i (0: never)
    prev,        \* history: 'projects' as it was when the last operation began
    reloaded,    \* history: a non-empty file has been loaded by a new process
    faults,      \* number of file faults so far (failed writes, files changed outside)
    argState,    \* the arguments of the last update_project_state: [id, estado]
    saves,       \* the number of _save calls the last operation made
    raised,      \* the exception the last operation let out to its caller ("none": none)
    unsaved,     \* history: when the last operation began, the list was not the file's
    argItems     \* the last add_or_update_projects argument (<<>> after another operation)

storeVars == <<projects, disk, lastOp, ret, argUrls, lastWrite, issued, prev, reloaded,
               faults, argState, saves, raised, unsaved, argItems>>

VARIABLES
    dlClass,      \* the class whose download_all_for_project is running
    max_retries,  \* its max_retries argument
    attempt,      \* its local 'attempt'
    dlpc,         \* its position: "idle", "goto", "loop", "backoff", "returned"
    dlResult,     \* how it ended: "True", "False", "None" or the error it raised
    dlDir,        \* its project_dir argument (the key of the directory)
    dlLog,        \* history: the outcome of every transfer attempt and backoff wait
    projectDirs   \* the project directories on disk, by key: "absent", "empty", "txt", "files"

dlVars == <<dlClass, max_retries, attempt, dlpc, dlResult, dlDir, dlLog>>

VARIABLES
    pc,            \* Phase 3: "idle", "select", "mark", "paths", "metadata", "download",
                   \* "downloading", "decide", "finished", "stopped", "crashed"
    downloader,    \* the class Phase 3 constructs its downloader from
    preferred_id,  \* main: preferred_id
    project,       \* the selected project: its position in 'projects' (0: none)
    project_id,    \* process_single_project: project_id
    metadata_ok,   \* process_single_project: metadata_ok
    success,       \* what process_single_project returned: "none", "True", "False"
    escaped,       \* the exception that left process_single_project ("none": none)
    selected       \* history: the positions selected so far in this run

runVars == <<pc, downloader, preferred_id, project, project_id, metadata_ok, success,
             escaped, selected>>

VARIABLES
    raw,    \* build_project_paths: the name the folder was last named from
    slug    \* the slug normalize_project_slug made of it

nameVars == <<raw, slug>>

vars == <<storeVars, dlVars, projectDirs, runVars, nameVars>>

\* ------------------------------------------------------------ store helpers
\* argState when the last operation was not update_project_state
NoArgs == [id |-> None, estado |-> "none"]

IsInt(x) == x # None

SetMax(S) == IF S = {} THEN 0 ELSE CHOOSE m \in S : \A x \in S : x <= m

\* max_id = 0; for p in self.projects: if isinstance(pid, int) and pid > max_id
MaxId(ps) == SetMax({ps[i].id : i \in {k \in 1..Len(ps) : IsInt(ps[k].id) /\ ps[k].id > 0}})

\* index_by_url = {p.get("url"): i for i, p in enumerate(self.projects) if p.get("url")}
\* (a later record with the same url overwrites an earlier one; 0: url not indexed)
IndexByUrl(ps) ==
    [u \in Urls |-> SetMax({i \in 1..Len(ps) : ps[i].url = u})]

\* Mutant: re-ingesting an existing url resets its estado.
UpdateExisting_ResetsEstado(st, p) ==
    LET idx == st.index[p.url]
        existing == st.projects[idx]
        e1 == IF p.name # 0 THEN [existing EXCEPT !.name = p.name] ELSE existing
        e2 == IF p.due_date # 0 THEN [e1 EXCEPT !.due_date = p.due_date] ELSE e1
    IN [st EXCEPT !.projects[idx] = [e2 EXCEPT !.estado = "pendiente"],
                  !.cambios_en_existentes = TRUE]

\* Mutant: an updated record is counted as a new one.
UpdateExisting_CountsAsNew(st, p) ==
    LET idx == st.index[p.url]
        existing == st.projects[idx]
        e1 == IF p.name # 0 THEN [existing EXCEPT !.name = p.name] ELSE existing
        e2 == IF p.due_date # 0 THEN [e1 EXCEPT !.due_date = p.due_date] ELSE e1
    IN [st EXCEPT !.projects[idx] = e2,
                  !.nuevos = @ + 1,
                  !.cambios_en_existentes = TRUE]

\* Mutant: a legacy record gets max_id + 1 but max_id is not advanced.
UpdateExisting_StaleMaxId(st, p) ==
    LET idx == st.index[p.url]
        existing == st.projects[idx]
        e1 == IF p.name # 0 THEN [existing EXCEPT !.name = p.name] ELSE existing
        e2 == IF p.due_date # 0 THEN [e1 EXCEPT !.due_date = p.due_date] ELSE e1
        e3 == IF ~IsInt(e2.id) THEN [e2 EXCEPT !.id = st.max_id + 1] ELSE e2
    IN [st EXCEPT !.projects[idx] = e3,
                  !.cambios_en_existentes = TRUE]

\* Mutant: name and due_date are assigned whatever they are.
UpdateExisting_OverwritesWithEmpty(st, p) ==
    LET idx == st.index[p.url]
        existing == st.projects[idx]
        e2 == [existing EXCEPT !.name = p.name, !.due_date = p.due_date]
        legacy == ~IsInt(e2.id)
        e3 == IF legacy THEN [e2 EXCEPT !.id = st.max_id + 1] ELSE e2
    IN [st EXCEPT !.projects[idx] = e3,
                  !.max_id = IF legacy THEN @ + 1 ELSE @,
                  !.cambios_en_existentes = TRUE]

\* The branch "url in index_by_url": update name/due_date, backfill a missing id.
UpdateExisting(st, p) ==
    LET idx == st.index[p.url]
        existing == st.projects[idx]
        e1 == IF p.name # 0 THEN [existing EXCEPT !.name = p.name] ELSE existing
        e2 == IF p.due_date # 0 THEN [e1 EXCEPT !.due_date = p.due_date] ELSE e1
        legacy == ~IsInt(e2.id)
        e3 == IF legacy THEN [e2 EXCEPT !.id = st.max_id + 1] ELSE e2
    IN [st EXCEPT !.projects[idx] = e3,
                  !.max_id = IF legacy THEN @ + 1 ELSE @,
                  !.cambios_en_existentes = TRUE]

\* Mutant: the new id is taken but max_id is not advanced.
AppendNew_StaleMaxId(st, p) ==
    LET entry == [id |-> st.max_id + 1, url |-> p.url, name |-> p.name,
                  due_date |-> p.due_date, estado |-> "pendiente"]
    IN [st EXCEPT !.projects = Append(@, entry),
                  !.index[p.url] = Len(st.projects) + 1,
                  !.nuevos = @ + 1]

\* Mutant: the appended record is not entered in index_by_url.
AppendNew_NotIndexed(st, p) ==
    LET entry == [id |-> st.max_id + 1, url |-> p.url, name |-> p.name,
                  due_date |-> p.due_date, estado |-> "pendiente"]
    IN [st EXCEPT !.projects = Append(@, entry),
                  !.max_id = @ + 1,
                  !.nuevos = @ + 1]

\* The branch "Proyecto NUEVO": next id, estado "pendiente", append, index, count.
AppendNew(st, p) ==
    LET entry == [id |-> st.max_id + 1, url |-> p.url, name |-> p.name,
                  due_date |-> p.due_date, estado |-> "pendiente"]
    IN [st EXCEPT !.projects = Append(@, entry),
                  !.index[p.url] = Len(st.projects) + 1,
                  !.max_id = @ + 1,
                  !.nuevos = @ + 1]

\* Mutant: an item without url takes an id before it is skipped.
UpsertItem_SkippedTakesId(st, p) ==
    IF p.url = 0 THEN [st EXCEPT !.max_id = @ + 1]
    ELSE IF st.index[p.url] # 0 THEN UpdateExisting(st, p)
    ELSE AppendNew(st, p)

\* One iteration of "for p in new_projects".
UpsertItem(st, p) ==
    IF p.url = 0 THEN st
    ELSE IF st.index[p.url] # 0 THEN UpdateExisting(st, p)
    ELSE AppendNew(st, p)

RECURSIVE UpsertLoop(_, _)
UpsertLoop(st, new_projects) ==
    IF new_projects = <<>> THEN st
    ELSE UpsertLoop(UpsertItem(st, Head(new_projects)), Tail(new_projects))

\* Mutant: only new records make the call save.
SavesOf_OnlyNew(st) == IF st.nuevos > 0 THEN 1 ELSE 0

\* "if nuevos > 0 or cambios_en_existentes: self._save()" after the loop: the number
\* of _save calls of one add_or_update_projects
SavesOf(st) == IF st.nuevos > 0 \/ st.cambios_en_existentes THEN 1 ELSE 0

\* add_or_update_projects without its _save: the final loop state.
add_or_update_projects(ps, new_projects) ==
    UpsertLoop([projects |-> ps, index |-> IndexByUrl(ps), max_id |-> MaxId(ps),
                nuevos |-> 0, cambios_en_existentes |-> FALSE], new_projects)

\* _save: open("w") + json.dump inside try/except.  "ok": written; "unchanged": the
\* open failed; "corrupt": the file was truncated and the dump did not complete.
WriteOutcomes == IF faults < MaxFaults THEN {"ok", "unchanged", "corrupt"} ELSE {"ok"}
GoodWrites == {"ok"}

\* Mutant: a write that reports success has dumped the first record only.
Save_FirstRecordOnly(d, ps, w) ==
    CASE w = "ok" -> [kind |-> "list", data |-> SubSeq(ps, 1, 1)]
      [] w = "unchanged" -> d
      [] OTHER -> [kind |-> "corrupt", data |-> <<>>]

Save(d, ps, w) ==
    CASE w = "ok" -> [kind |-> "list", data |-> ps]
      [] w = "unchanged" -> d
      [] OTHER -> [kind |-> "corrupt", data |-> <<>>]

\* _save: the whole body is inside try / except Exception, which only logs
SaveError(w) ==
    CASE w = "ok" -> "none"
      [] OTHER -> "none"

\* Mutant: a failed write undoes the mutation.
InMemoryAfterSave_RolledBack(before, after, w) == IF w = "ok" THEN after ELSE before

\* self.projects once _save has returned: no handler restores the list
InMemoryAfterSave(before, after, w) == after

\* What the file can be when a store is constructed: no file ("absent"), a JSON
\* list ("list"), JSON that is not a list ("nonlist"), no valid JSON ("corrupt"),
\* or a file that cannot be opened ("unreadable").
FileKinds == {"absent", "list", "nonlist", "corrupt", "unreadable"}

\* _load: absent file, unreadable/invalid JSON or a non-list give the empty list.
Load(d) == IF d.kind = "list" THEN d.data ELSE <<>>

\* Mutant: open and json.load outside the try.
LoadError_NoHandler(d) ==
    IF d.kind \in {"corrupt", "unreadable"} THEN "Exception" ELSE "none"

\* _load: "absent" returns before the try; open / json.load errors are caught by
\* except Exception; a non-list is handled by the isinstance test
LoadError(d) ==
    CASE d.kind = "absent" -> "none"
      [] d.kind \in {"corrupt", "unreadable"} -> "none"
      [] OTHER -> "none"

\* get_pending_projects
get_pending_projects(ps) == SelectSeq(ps, LAMBDA p : p.estado = "pendiente")

\* get_project_by_id: index of the first record with that integer id, 0 for None.
get_project_by_id(ps, id) ==
    LET hits == {i \in 1..Len(ps) : IsInt(ps[i].id) /\ ps[i].id = id}
    IN IF hits = {} THEN 0 ELSE CHOOSE i \in hits : \A j \in hits : i <= j

\* Mutant: the record is found but its estado is not assigned.
update_project_state_NoChange(ps, id, new_state) == ps

\* Mutant: the loop assigns the estado without testing the id.
update_project_state_EveryRecord(ps, id, new_state) ==
    [i \in 1..Len(ps) |-> [ps[i] EXCEPT !.estado = new_state]]

\* update_project_state without its _save: the first record with that id changes.
update_project_state(ps, id, new_state) ==
    LET i == get_project_by_id(ps, id)
    IN IF i = 0 THEN ps ELSE [ps EXCEPT ![i].estado = new_state]

\* history of id assignment: every (id, url) present and not yet recorded is recorded
NoteIssued(iss, ps) ==
    [i \in DOMAIN iss |->
        IF iss[i] # 0 THEN iss[i]
        ELSE LET hits == {k \in 1..Len(ps) : ps[k].id = i}
             IN IF hits = {} THEN 0 ELSE ps[CHOOSE k \in hits : TRUE].url]

\* ------------------------------------------------------------------ downloader
\* The two classes that implement download_all_for_project.  download.py holds no
\* DiskFullError and none of the private helpers; _perform_download_all is the one
\* of project_downloader.py for both.
DownloaderClasses == {"ProjectFilesDownloader", "BuildingConnectedProjectDownloader"}

\* max_retries: int = 2
DefaultMaxRetries == 2

\* What one _perform_download_all call does: returns True or False, raises
\* DownloadCanceledError or DiskFullError, or lets another exception out (mkdir and
\* the button lookup are outside its try).
TransferOutcomes == {"True", "False", "Canceled", "DiskFull", "Error"}

\* page.goto + _ensure_files_view, and page.wait_for_timeout: return or raise.
CallOutcomes == {"ok", "raise"}

Ended(result) == [pc |-> "returned", result |-> result]

\* while attempt < max_retries
LoopTest(a, mr) == a < mr

\* Mutant: a cancellation on the last attempt is retried instead of raised.
RetryAllowed_Always(a, mr) == a <= mr

\* Mutant: a cancellation is never retried.
RetryAllowed_Never(a, mr) == FALSE

\* except DownloadCanceledError: if attempt < max_retries
RetryAllowed(a, mr) == a < mr

\* Mutant: a full disk is handled like any other exception.
OnDiskFull_Swallowed(class) == Ended("False")

\* DiskFullError out of the loop: "except DiskFullError: raise" in
\* project_downloader.py; download.py has only "except Exception: return False".
OnDiskFull(class) ==
    IF class = "BuildingConnectedProjectDownloader" THEN Ended("DiskFullError")
    ELSE Ended("False")

\* Mutant: a successful transfer is followed by a wait and another attempt while
\* attempts remain.
OnAttempt_SuccessContinues(class, o, a, mr) ==
    CASE o = "True" ->
            IF a < mr THEN [pc |-> "backoff", result |-> "none"] ELSE Ended("True")
      [] o = "False" -> Ended("False")
      [] o = "Canceled" ->
            IF a < mr THEN [pc |-> "backoff", result |-> "none"]
            ELSE Ended("DownloadCanceledError")
      [] o = "DiskFull" -> OnDiskFull(class)
      [] OTHER -> Ended("False")

\* Mutant: a transfer that returned False is retried like a cancelled one.
OnAttempt_FalseRetries(class, o, a, mr) ==
    CASE o = "True" -> Ended("True")
      [] o = "False" ->
            IF a < mr THEN [pc |-> "backoff", result |-> "none"] ELSE Ended("False")
      [] o = "Canceled" ->
            IF a < mr THEN [pc |-> "backoff", result |-> "none"]
            ELSE Ended("DownloadCanceledError")
      [] o = "DiskFull" -> OnDiskFull(class)
      [] OTHER -> Ended("False")

\* Mutant: no "except Exception" around the loop.
OnAttempt_ErrorPropagates(class, o, a, mr) ==
    CASE o = "True" -> Ended("True")
      [] o = "False" -> Ended("False")
      [] o = "Canceled" ->
            IF a < mr THEN [pc |-> "backoff", result |-> "none"]
            ELSE Ended("DownloadCanceledError")
      [] o = "DiskFull" -> OnDiskFull(class)
      [] OTHER -> Ended("Exception")

\* One pass of the loop body after attempt += 1, by the outcome of the transfer.
OnAttempt(class, o, a, mr) ==
    CASE o = "True" -> Ended("True")
      [] o = "False" -> Ended("False")
      [] o = "Canceled" ->
            IF RetryAllowed(a, mr) THEN [pc |-> "backoff", result |-> "none"]
            ELSE Ended("DownloadCanceledError")
      [] o = "DiskFull" -> OnDiskFull(class)
      [] OTHER -> Ended("False")

\* a successful transfer saves the download in project_dir; every attempt starts
\* with project_dir.mkdir(exist_ok=True)
DirAfterTransfer(d, o) ==
    IF o = "True" THEN "files"
    ELSE IF d = "absent" /\ o # "Error" THEN "empty"
    ELSE d

\* download_all_for_project(project, project_dir, max_retries) is entered: a project
\* without url returns False at once.
DlEnter(class, url, dir, mr) ==
    /\ dlClass' = class
    /\ max_retries' = mr
    /\ attempt' = 0
    /\ dlDir' = dir
    /\ dlLog' = <<>>
    /\ dlpc' = IF url = 0 THEN "returned" ELSE "goto"
    /\ dlResult' = IF url = 0 THEN "False" ELSE "none"

\* page.goto(files_url), wait_for_load_state, _ensure_files_view; attempt = 0
DlGoto(o) ==
    /\ dlpc = "goto"
    /\ dlpc' = IF o = "ok" THEN "loop" ELSE "returned"
    /\ dlResult' = IF o = "ok" THEN "none" ELSE "False"
    /\ UNCHANGED <<dlClass, max_retries, attempt, dlDir, dlLog, projectDirs, storeVars, runVars>>
    /\ UNCHANGED nameVars

\* one pass of "while attempt < max_retries": attempt += 1, the transfer, its handlers
DlAttempt(o) ==
    /\ dlpc = "loop"
    /\ LoopTest(attempt, max_retries)
    /\ attempt' = attempt + 1
    /\ dlLog' = Append(dlLog, o)
    /\ dlpc' = OnAttempt(dlClass, o, attempt + 1, max_retries).pc
    /\ dlResult' = OnAttempt(dlClass, o, attempt + 1, max_retries).result
    /\ projectDirs' = [projectDirs EXCEPT ![dlDir] = DirAfterTransfer(@, o)]
    /\ UNCHANGED <<dlClass, max_retries, dlDir, storeVars, runVars>>
    /\ UNCHANGED nameVars

\* the loop condition fails: the function ends without a return statement
DlLoopExit ==
    /\ dlpc = "loop"
    /\ ~LoopTest(attempt, max_retries)
    /\ dlpc' = "returned"
    /\ dlResult' = "None"
    /\ UNCHANGED <<dlClass, max_retries, attempt, dlDir, dlLog, projectDirs, storeVars, runVars>>
    /\ UNCHANGED nameVars

\* self.page.wait_for_timeout(2000); continue
DlBackoff(o) ==
    /\ dlpc = "backoff"
    /\ dlLog' = Append(dlLog, IF o = "ok" THEN "wait" ELSE "wait-raised")
    /\ dlpc' = IF o = "ok" THEN "loop" ELSE "returned"
    /\ dlResult' = IF o = "ok" THEN "none" ELSE "False"
    /\ UNCHANGED <<dlClass, max_retries, attempt, dlDir, projectDirs, storeVars, runVars>>
    /\ UNCHANGED nameVars

\* the steps inside a running download_all_for_project call
DlStep ==
    \/ \E o \in CallOutcomes : DlGoto(o)
    \/ \E o \in TransferOutcomes : DlAttempt(o)
    \/ DlLoopExit
    \/ \E o \in CallOutcomes : DlBackoff(o)

\* A caller outside Phase 3 calls the downloader with any max_retries.
DlCall(class, url, mr, d) ==
    /\ pc = "idle"
    /\ dlpc \in {"idle", "returned"}
    /\ DlEnter(class, url, 0, mr)
    /\ projectDirs' = [projectDirs EXCEPT ![0] = d]
    /\ UNCHANGED <<storeVars, runVars>>
    /\ UNCHANGED nameVars

DlNext ==
    \/ \E c \in DownloaderClasses, u \in 0..1, mr \in 0..MaxRetriesBound,
          d \in {"absent", "txt"} : DlCall(c, u, mr, d)
    \/ DlStep

\* ----------------------------------------------------------------- naming
\* Names as sequences of characters.  "-" stands for the symbols of the class
\* [-_,:/\\()], " " for white space, "&" for a character that is neither.
Letters == {"a", "b"}
Symbols == {"-"}
Blanks == {" "}
Chars == Letters \cup Symbols \cup Blanks \cup {"&"}

\* max_len: int = 60
DefaultMaxLen == 60

\* "project" and "UnnamedProject"
ProjectSlug == <<"p", "r", "o", "j", "e", "c", "t">>
UnnamedProject == <<"U", "n", "n", "a", "m", "e", "d", "P", "r", "o", "j", "e", "c", "t">>

\* steps 1-3: symbols become spaces, runs of white space become one space, strip,
\* split(" "): the maximal runs of characters that are neither symbol nor blank
RECURSIVE SplitWords(_, _, _)
SplitWords(r, cur, acc) ==
    IF r = <<>> THEN (IF cur = <<>> THEN acc ELSE Append(acc, cur))
    ELSE IF Head(r) \in Symbols \cup Blanks
         THEN SplitWords(Tail(r), <<>>, IF cur = <<>> THEN acc ELSE Append(acc, cur))
         ELSE SplitWords(Tail(r), Append(cur, Head(r)), acc)

Words(r) == SplitWords(r, <<>>, <<>>)

\* step 4: re.sub(r"[^A-Za-z0-9_\-]", "", base)
Kept(c) == c \notin Blanks \cup {"&"}

\* normalize_project_slug(raw, max_len)
normalize_project_slug(r, max_len) ==
    IF r = <<>> THEN ProjectSlug
    ELSE LET words == Words(r)
         IN IF words = <<>> THEN ProjectSlug
            ELSE LET base == IF Len(words) = 1 THEN words[1]
                             ELSE IF Len(words) = 2 THEN words[1] \o <<"-">> \o words[2]
                             ELSE words[1] \o <<"-">> \o words[2] \o <<"-">> \o words[3]
                     kept == SelectSeq(base, Kept)
                     named == IF kept = <<>> THEN ProjectSlug ELSE kept
                 IN IF Len(named) > max_len THEN SubSeq(named, 1, max_len) ELSE named

\* build_project_paths: name = project.get("name") or "UnnamedProject";
\* slug = normalize_project_slug(name)
FolderSlug(name) ==
    normalize_project_slug(IF name = <<>> THEN UnnamedProject ELSE name, DefaultMaxLen)

\* The names of up to MaxNameLen characters.
RawNames == SeqsUpTo(Chars, MaxNameLen)

\* build_project_paths is called on a project whose name is r and names the folder.
NameFolder(r) ==
    /\ slug = <<>>
    /\ raw' = r
    /\ slug' = FolderSlug(r)
    /\ UNCHANGED <<storeVars, dlVars, projectDirs, runVars>>

\* build_project_paths has returned: its locals are gone
NameReturn ==
    /\ slug # <<>>
    /\ raw' = <<>>
    /\ slug' = <<>>
    /\ UNCHANGED <<storeVars, dlVars, projectDirs, runVars>>

NextNaming ==
    \/ \E r \in RawNames : NameFolder(r)
    \/ NameReturn

\* --------------------------------------------------------------- store actions
\* No file, no directory, a store constructed on the absent file, no call running.
Init ==
    /\ projects = <<>>
    /\ disk = [kind |-> "absent", data |-> <<>>]
    /\ lastOp = "init"
    /\ ret = 0
    /\ argUrls = {}
    /\ lastWrite = "none"
    /\ issued = [i \in 1..(2 * MaxKeys) |-> 0]
    /\ prev = <<>>
    /\ reloaded = FALSE
    /\ faults = 0
    /\ argState = NoArgs
    /\ saves = 0
    /\ raised = "none"
    /\ unsaved = FALSE
    /\ argItems = <<>>
    /\ dlClass = "ProjectFilesDownloader"
    /\ max_retries = DefaultMaxRetries
    /\ attempt = 0
    /\ dlpc = "idle"
    /\ dlResult = "none"
    /\ dlDir = 0
    /\ dlLog = <<>>
    /\ projectDirs = [k \in 0..MaxKeys |-> "absent"]
    /\ pc = "idle"
    /\ downloader = "ProjectFilesDownloader"
    /\ preferred_id = None
    /\ project = 0
    /\ project_id = 0
    /\ metadata_ok = FALSE
    /\ success = "none"
    /\ escaped = "none"
    /\ selected = {}
    /\ raw = <<>>
    /\ slug = <<>>

\* PendingProjectStore(): a new process constructs the store from the file.
LoadEffect ==
    /\ projects' = Load(disk)
    /\ prev' = projects
    /\ reloaded' = (reloaded \/ Load(disk) # <<>>)
    /\ lastOp' = "_load"
    /\ ret' = 0
    /\ argUrls' = {}
    /\ lastWrite' = "none"
    /\ argState' = NoArgs
    /\ saves' = 0
    /\ raised' = LoadError(disk)
    /\ unsaved' = FALSE
    /\ argItems' = <<>>
    /\ UNCHANGED <<disk, issued, faults>>

\* add_or_update_projects(new_projects) on the list ps, with its single _save
AddOrUpdateEffect(ps, new_projects, w) ==
    LET st == add_or_update_projects(ps, new_projects)
        saved == SavesOf(st) > 0
    IN /\ projects' = IF saved THEN InMemoryAfterSave(ps, st.projects, w) ELSE st.projects
       /\ disk' = IF saved THEN Save(disk, st.projects, w) ELSE disk
       /\ lastWrite' = IF saved THEN w ELSE "none"
       /\ faults' = IF saved /\ w # "ok" THEN faults + 1 ELSE faults
       /\ argState' = NoArgs
       /\ saves' = SavesOf(st)
       /\ raised' = IF saved THEN SaveError(w) ELSE "none"
       /\ lastOp' = "add_or_update_projects"
       /\ ret' = st.nuevos
       /\ argUrls' = {new_projects[i].url : i \in 1..Len(new_projects)} \ {0}
       /\ issued' = NoteIssued(issued, st.projects)
       /\ prev' = ps
       /\ unsaved' = (ps # Load(disk))
       /\ argItems' = new_projects

\* update_project_state(project_id, new_state): mutate, _save, return True; or
\* return False when no record has that id
UpdateStateEffect(id, new_state, w) ==
    LET found == get_project_by_id(projects, id) # 0
        after == update_project_state(projects, id, new_state)
    IN /\ projects' = IF found THEN InMemoryAfterSave(projects, after, w) ELSE projects
       /\ disk' = IF found THEN Save(disk, after, w) ELSE disk
       /\ lastWrite' = IF found THEN w ELSE "none"
       /\ faults' = IF found /\ w # "ok" THEN faults + 1 ELSE faults
       /\ argState' = [id |-> id, estado |-> new_state]
       /\ saves' = IF found THEN 1 ELSE 0
       /\ raised' = IF found THEN SaveError(w) ELSE "none"
       /\ lastOp' = "update_project_state"
       /\ ret' = IF found THEN 1 ELSE 0
       /\ argUrls' = {}
       /\ prev' = projects
       /\ unsaved' = (projects # Load(disk))
       /\ argItems' = <<>>
       /\ UNCHANGED <<issued, reloaded>>

StoreLoad ==
    /\ LoadEffect
    /\ UNCHANGED <<dlVars, projectDirs, runVars>>
    /\ UNCHANGED nameVars

StoreAddOrUpdate(new_projects, w) ==
    /\ AddOrUpdateEffect(projects, new_projects, w)
    /\ UNCHANGED <<reloaded, dlVars, projectDirs, runVars>>
    /\ UNCHANGED nameVars

StoreUpdateState(id, new_state, w) ==
    /\ UpdateStateEffect(id, new_state, w)
    /\ UNCHANGED <<dlVars, projectDirs, runVars>>
    /\ UNCHANGED nameVars

Batches == SeqsUpTo(PlainItems, MaxBatch) \cup {<<p>> : p \in AnyItems}

StoreNext ==
    \/ StoreLoad
    \/ \E b \in Batches, w \in GoodWrites : StoreAddOrUpdate(b, w)
    \/ \E i \in 0..MaxKeys, s \in Estados, w \in GoodWrites : StoreUpdateState(i, s, w)

SpecStore == Init /\ [][StoreNext]_vars

SpecNaming == Init /\ [][NextNaming]_vars

\* --------------------------------------------------------------------- Phase 3
\* Mutant: the preferred record is taken whatever its estado.
select_next_project_AnyEstado(ps, preferred) ==
    IF preferred # None
    THEN get_project_by_id(ps, preferred)
    ELSE LET pending == {i \in 1..Len(ps) : ps[i].estado = "pendiente"}
         IN IF pending = {} THEN 0 ELSE CHOOSE i \in pending : \A j \in pending : i <= j

\* Mutant: without a preferred id the last "pendiente" record is taken.
select_next_project_LastPending(ps, preferred) ==
    IF preferred # None
    THEN LET i == get_project_by_id(ps, preferred)
         IN IF i = 0 THEN 0
            ELSE IF ps[i].estado # "pendiente" THEN 0
            ELSE i
    ELSE LET pending == {i \in 1..Len(ps) : ps[i].estado = "pendiente"}
         IN IF pending = {} THEN 0 ELSE CHOOSE i \in pending : \A j \in pending : i >= j

\* Mutant: a record left "en-proceso" is taken up again like a "pendiente" one.
select_next_project_ResumesInProgress(ps, preferred) ==
    IF preferred # None
    THEN LET i == get_project_by_id(ps, preferred)
         IN IF i = 0 THEN 0
            ELSE IF ps[i].estado # "pendiente" THEN 0
            ELSE i
    ELSE LET pending == {i \in 1..Len(ps) : ps[i].estado \in {"pendiente", "en-proceso"}}
         IN IF pending = {} THEN 0 ELSE CHOOSE i \in pending : \A j \in pending : i <= j

\* select_next_project: the position of the selected project, 0 for None
select_next_project(ps, preferred) ==
    IF preferred # None
    THEN LET i == get_project_by_id(ps, preferred)
         IN IF i = 0 THEN 0
            ELSE IF ps[i].estado # "pendiente" THEN 0
            ELSE i
    ELSE LET pending == {i \in 1..Len(ps) : ps[i].estado = "pendiente"}
         IN IF pending = {} THEN 0 ELSE CHOOSE i \in pending : \A j \in pending : i <= j

\* cleanup_project_dir: rmtree inside try/except; a failed rmtree is only logged
CleanupOutcomes == {"removed", "kept"}

cleanup_project_dir(dirs, key, c) ==
    IF c = "removed" THEN [dirs EXCEPT ![key] = "absent"] ELSE dirs

\* build_project_paths: project_dir.mkdir(parents=True, exist_ok=True)
MkdirOutcomes == {"ok", "raise"}

\* page.goto(info_url), extract(), txt_path.write_text: metadata with a
\* project_name, metadata without one, or an exception
MetadataOutcomes == {"ok", "no-name", "raise"}

Verdict(estado, ok, cleanup) == [estado |-> estado, success |-> ok, cleanup |-> cleanup]

\* "except DownloadCanceledError" names the class imported from src.download; the
\* class of the same name in src.project_downloader is a different exception
CaughtAsCanceled(class, result) ==
    result = "DownloadCanceledError" /\ class = "ProjectFilesDownloader"

\* Mutant: a completed attempt returns True without writing "descargado".
Outcome_SuccessNotWritten(class, result, meta_ok) ==
    CASE CaughtAsCanceled(class, result) -> Verdict("error", "False", TRUE)
      [] result = "True" /\ meta_ok -> Verdict("en-proceso", "True", FALSE)
      [] OTHER -> Verdict("pendiente", "False", TRUE)

\* process_single_project from the downloader's answer on: the new estado, the
\* return value and whether the folder is cleaned up.  DownloadCanceledError has
\* its own handler; every other exception, DiskFullError included, is caught by
\* "except Exception"; a falsy download_ok (False, None) or metadata_ok reverts.
Outcome(class, result, meta_ok) ==
    CASE CaughtAsCanceled(class, result) -> Verdict("error", "False", TRUE)
      [] result = "True" /\ meta_ok -> Verdict("descargado", "True", FALSE)
      [] OTHER -> Verdict("pendiente", "False", TRUE)

\* Mutant: the loop never breaks.
Continues_Always(ok, estado_actual) == TRUE

\* main, after process_single_project: continue on success or on estado "error"
Continues(ok, estado_actual) == ok = "True" \/ estado_actual = "error"

\* a new process_single_project / download_all_for_project frame: no locals yet
DlFresh(class) ==
    /\ dlClass' = class
    /\ max_retries' = DefaultMaxRetries
    /\ attempt' = 0
    /\ dlpc' = "idle"
    /\ dlResult' = "none"
    /\ dlDir' = 0
    /\ dlLog' = <<>>

\* between Phase 3 runs a PendingProjectStore over the same file takes a batch of
\* scraped summaries: __init__ (load), then add_or_update_projects
Collect(new_projects, w) ==
    /\ pc = "idle"
    /\ AddOrUpdateEffect(Load(disk), new_projects, w)
    /\ reloaded' = (reloaded \/ Load(disk) # <<>>)
    /\ UNCHANGED <<dlVars, projectDirs, runVars>>
    /\ UNCHANGED nameVars

\* phase3_main.main up to the loop: the store is loaded, login succeeds or not.
\* class is the downloader process_single_project constructs: ProjectFilesDownloader
\* as imported, or the repository's BuildingConnectedProjectDownloader in its place.
StartRun(preferred, class, login) ==
    /\ pc = "idle"
    /\ LoadEffect
    /\ DlFresh(class)
    /\ pc' = IF login THEN "select" ELSE "login_failed"
    /\ downloader' = class
    /\ preferred_id' = preferred
    /\ project' = 0
    /\ project_id' = 0
    /\ metadata_ok' = FALSE
    /\ success' = "none"
    /\ escaped' = "none"
    /\ selected' = {}
    /\ UNCHANGED projectDirs
    /\ UNCHANGED nameVars

\* project = select_next_project(store, preferred_id); preferred_id = None
Select ==
    /\ pc = "select"
    /\ LET i == select_next_project(projects, preferred_id)
       IN /\ project' = i
          /\ pc' = IF i = 0 THEN "finished" ELSE "mark"
          /\ selected' = IF i = 0 THEN selected ELSE selected \cup {i}
    /\ preferred_id' = None
    /\ success' = "none"
    /\ UNCHANGED <<storeVars, dlVars, projectDirs, downloader, project_id, metadata_ok,
                   escaped>>
    /\ UNCHANGED nameVars

\* process_single_project: project_id (0 without an integer id), estado "en-proceso"
Mark(w) ==
    /\ pc = "mark"
    /\ LET id == IF IsInt(projects[project].id) THEN projects[project].id ELSE 0
       IN /\ project_id' = id
          /\ UpdateStateEffect(id, "en-proceso", w)
    /\ DlFresh(downloader)
    /\ metadata_ok' = FALSE
    /\ pc' = "paths"
    /\ UNCHANGED <<projectDirs, downloader, preferred_id, project, success, escaped,
                   selected>>
    /\ UNCHANGED nameVars

\* build_project_paths (outside the try), then the check of the project's url
BuildPaths(o, w, c) ==
    /\ pc = "paths"
    /\ IF o = "raise"
       THEN /\ pc' = "crashed"
            /\ escaped' = "OSError"
            /\ UNCHANGED <<storeVars, projectDirs, success>>
       ELSE LET made == [projectDirs EXCEPT
                            ![project_id] = IF @ = "absent" THEN "empty" ELSE @]
            IN IF projects[project].url = 0
               THEN /\ UpdateStateEffect(project_id, "pendiente", w)
                    /\ projectDirs' = cleanup_project_dir(made, project_id, c)
                    /\ success' = "False"
                    /\ pc' = "decide"
                    /\ UNCHANGED escaped
               ELSE /\ projectDirs' = made
                    /\ pc' = "metadata"
                    /\ UNCHANGED <<storeVars, success, escaped>>
    /\ UNCHANGED <<dlVars, downloader, preferred_id, project, project_id, metadata_ok,
                   selected>>
    /\ UNCHANGED nameVars

\* the metadata block of the try: goto, extract, write the txt, metadata_ok
Metadata(o, w, c) ==
    /\ pc = "metadata"
    /\ IF o = "raise"
       THEN /\ UpdateStateEffect(project_id, "pendiente", w)
            /\ projectDirs' = cleanup_project_dir(projectDirs, project_id, c)
            /\ success' = "False"
            /\ pc' = "decide"
            /\ UNCHANGED metadata_ok
       ELSE /\ projectDirs' = [projectDirs EXCEPT
                                  ![project_id] = IF @ = "files" THEN @ ELSE "txt"]
            /\ metadata_ok' = (o = "ok")
            /\ pc' = "download"
            /\ UNCHANGED <<storeVars, success>>
    /\ UNCHANGED <<dlVars, downloader, preferred_id, project, project_id, escaped,
                   selected>>
    /\ UNCHANGED nameVars

\* downloader = ProjectFilesDownloader(page); downloader.download_all_for_project(...)
CallDownloader ==
    /\ pc = "download"
    /\ DlEnter(downloader, projects[project].url, project_id, DefaultMaxRetries)
    /\ pc' = "downloading"
    /\ UNCHANGED <<storeVars, projectDirs, downloader, preferred_id, project, project_id,
                   metadata_ok, success, escaped, selected>>
    /\ UNCHANGED nameVars

\* the rest of process_single_project once the downloader has returned or raised
Resolve(w, c) ==
    /\ pc = "downloading"
    /\ dlpc = "returned"
    /\ LET v == Outcome(downloader, dlResult, metadata_ok)
       IN /\ UpdateStateEffect(project_id, v.estado, w)
          /\ projectDirs' = IF v.cleanup
                             THEN cleanup_project_dir(projectDirs, project_id, c)
                             ELSE projectDirs
          /\ success' = v.success
    /\ pc' = "decide"
    /\ UNCHANGED <<dlVars, downloader, preferred_id, project, project_id, metadata_ok,
                   escaped, selected>>
    /\ UNCHANGED nameVars

\* main: continue or break, from the estado the store holds for project.get("id")
Decide ==
    /\ pc = "decide"
    /\ LET r == get_project_by_id(projects, projects[project].id)
           estado_actual == IF r = 0 THEN "None" ELSE projects[r].estado
       IN pc' = IF Continues(success, estado_actual) THEN "select" ELSE "stopped"
    /\ UNCHANGED <<storeVars, dlVars, projectDirs, downloader, preferred_id, project,
                   project_id, metadata_ok, success, escaped, selected>>
    /\ UNCHANGED nameVars

\* the Phase 3 process ends and its locals with it
Exit ==
    /\ pc \in {"finished", "stopped", "crashed", "login_failed"}
    /\ pc' = "idle"
    /\ DlFresh(downloader)
    /\ preferred_id' = None
    /\ project' = 0
    /\ project_id' = 0
    /\ metadata_ok' = FALSE
    /\ success' = "none"
    /\ escaped' = "none"
    /\ selected' = {}
    /\ UNCHANGED <<storeVars, projectDirs, downloader>>
    /\ UNCHANGED nameVars

PlainBatches == SeqsUpTo(PlainItems, MaxBatch)

Next ==
    \/ \E b \in PlainBatches, w \in GoodWrites : Collect(b, w)
    \/ \E p \in {None} \cup (1..MaxKeys), c \in DownloaderClasses, l \in BOOLEAN :
          StartRun(p, c, l)
    \/ Select
    \/ \E w \in GoodWrites : Mark(w)
    \/ \E o \in MkdirOutcomes, w \in GoodWrites, c \in CleanupOutcomes : BuildPaths(o, w, c)
    \/ \E o \in MetadataOutcomes, w \in GoodWrites, c \in CleanupOutcomes : Metadata(o, w, c)
    \/ CallDownloader
    \/ \E o \in CallOutcomes : DlGoto(o)
    \/ \E o \in TransferOutcomes : DlAttempt(o)
    \/ \E o \in CallOutcomes : DlBackoff(o)
    \/ \E w \in GoodWrites, c \in CleanupOutcomes : Resolve(w, c)
    \/ Decide
    \/ Exit

Spec == Init /\ [][Next]_vars

\* the steps of a started run: the loop of main and the calls it makes
RunStep ==
    \/ Select
    \/ \E w \in GoodWrites : Mark(w)
    \/ \E o \in MkdirOutcomes, w \in GoodWrites, c \in CleanupOutcomes : BuildPaths(o, w, c)
    \/ \E o \in MetadataOutcomes, w \in GoodWrites, c \in CleanupOutcomes : Metadata(o, w, c)
    \/ CallDownloader
    \/ \E o \in CallOutcomes : DlGoto(o)
    \/ \E o \in TransferOutcomes : DlAttempt(o)
    \/ \E o \in CallOutcomes : DlBackoff(o)
    \/ \E w \in GoodWrites, c \in CleanupOutcomes : Resolve(w, c)
    \/ Decide

\* every call of a run returns or raises: a run that can take a step takes one
SpecLive == Init /\ [][Next]_vars /\ WF_vars(RunStep)

\* ------------------------------------------------------------ the file at fault
\* Between two processes the file is removed, made unreadable, or replaced by
\* something that is not a JSON list.
FileChanged(k) ==
    /\ pc = "idle"
    /\ faults < MaxFaults
    /\ disk' = [kind |-> k, data |-> <<>>]
    /\ faults' = faults + 1
    /\ lastOp' = "file changed"
    /\ UNCHANGED <<projects, ret, argUrls, lastWrite, issued, prev, reloaded, argState,
                   saves, raised, unsaved, argItems, dlVars, projectDirs, runVars>>
    /\ UNCHANGED nameVars

\* The collector and Phase 3 with a file whose writes can fail: every _save takes
\* one of WriteOutcomes.
NextDisk ==
    \/ \E b \in PlainBatches, w \in WriteOutcomes : Collect(b, w)
    \/ \E k \in FileKinds \ {"list"} : FileChanged(k)
    \/ StartRun(None, "ProjectFilesDownloader", TRUE)
    \/ Select
    \/ \E w \in WriteOutcomes : Mark(w)
    \/ \E o \in MkdirOutcomes, w \in WriteOutcomes, c \in CleanupOutcomes :
          BuildPaths(o, w, c)
    \/ \E o \in MetadataOutcomes, w \in WriteOutcomes, c \in CleanupOutcomes :
          Metadata(o, w, c)
    \/ CallDownloader
    \/ \E o \in CallOutcomes : DlGoto(o)
    \/ \E o \in TransferOutcomes : DlAttempt(o)
    \/ \E o \in CallOutcomes : DlBackoff(o)
    \/ \E w \in WriteOutcomes, c \in CleanupOutcomes : Resolve(w, c)
    \/ Decide
    \/ Exit

SpecDisk == Init /\ [][NextDisk]_vars

\* ------------------------------------------------------------ legacy records
\* A record as a version of the program without ids wrote it: no integer 'id'
\* ("legacy sin id" in add_or_update_projects), or the id its position gave it.
LegacyRecords(u) ==
    {[id |-> i, url |-> u, name |-> 1, due_date |-> 1, estado |-> e] :
        i \in {None, u}, e \in {"pendiente", "descargado"}}

\* The files of up to MaxKeys records with distinct urls and a record without id.
LegacyFiles ==
    {<<r>> : r \in {x \in LegacyRecords(1) : ~IsInt(x.id)}}
    \cup {f \in {<<r1, r2>> : r1 \in LegacyRecords(1), r2 \in LegacyRecords(2)} :
              ~IsInt(f[1].id) \/ ~IsInt(f[2].id)}

\* pending_projects.json is there before the first process of this version starts.
LegacyFile(f) ==
    /\ pc = "idle"
    /\ lastOp = "init"
    /\ disk.kind = "absent"
    /\ disk' = [kind |-> "list", data |-> f]
    /\ lastOp' = "legacy file"
    /\ UNCHANGED <<projects, ret, argUrls, lastWrite, issued, prev, reloaded, faults,
                   argState, saves, raised, unsaved, argItems, dlVars, projectDirs,
                   runVars>>
    /\ UNCHANGED nameVars

\* The store's operations on a file that can hold legacy records.
NextLegacyStore ==
    \/ \E f \in LegacyFiles : LegacyFile(f)
    \/ StoreLoad
    \/ \E b \in Batches, w \in GoodWrites : StoreAddOrUpdate(b, w)
    \/ \E i \in 0..MaxKeys, s \in Estados, w \in GoodWrites : StoreUpdateState(i, s, w)

SpecLegacyStore == Init /\ [][NextLegacyStore]_vars

\* Phase 3 runs on a file that can hold legacy records.
NextLegacy ==
    \/ \E f \in LegacyFiles : LegacyFile(f)
    \/ StartRun(None, "ProjectFilesDownloader", TRUE)
    \/ RunStep
    \/ Exit

SpecLegacy == Init /\ [][NextLegacy]_vars

\* SpecLegacy with every call of a run returning or raising
SpecLegacyLive == Init /\ [][NextLegacy]_vars /\ WF_vars(RunStep)

\* ------------------------------------------------------------ store properties
UrlsOf(ps) == {ps[i].url : i \in 1..Len(ps)}
IdsOf(ps) == {ps[i].id : i \in 1..Len(ps)}
Upserted == lastOp = "add_or_update_projects"
\* the positions of the records the last add_or_update_projects created
Created == (Len(prev) + 1)..Len(projects)

\* C2: the store holds one record per url at all times; an add_or_update_projects
\* call keeps every record that existed before it at its position, with its url
\* and its id, whatever urls the incoming list repeats.
C2_OneRecordPerKey ==
    /\ \A i, j \in 1..Len(projects) : projects[i].url = projects[j].url => i = j
    /\ Upserted =>
          /\ Len(projects) >= Len(prev)
          /\ \A i \in 1..Len(prev) :
                projects[i].url = prev[i].url /\ projects[i].id = prev[i].id

\* C2 witness: a call whose incoming urls were all stored already has run on a
\* store of MaxKeys records and changed one of them.
C2_Witness ==
    /\ Upserted
    /\ Len(prev) = MaxKeys
    /\ argUrls # {} /\ argUrls \subseteq UrlsOf(prev)
    /\ projects # prev

\* C3: every id add_or_update_projects assigns is greater than every id of the
\* store before the call and than the ids assigned earlier in the call, and the
\* record holding an id is the first record that id was ever given to, also
\* after the file was saved and loaded again by a new process.
C3_IdsIncreaseNeverReused ==
    /\ Upserted =>
          /\ \A i \in Created : \A k \in 1..Len(prev) : prev[k].id < projects[i].id
          /\ \A i, j \in Created : i < j => projects[i].id < projects[j].id
    /\ \A i \in 1..Len(projects) : issued[projects[i].id] = projects[i].url
    /\ \A i, j \in 1..Len(projects) : projects[i].id = projects[j].id => i = j

\* C3 witness: after a reload of a non-empty file, a call has created a record
\* next to the loaded ones.
C3_Witness ==
    /\ Upserted
    /\ reloaded
    /\ Len(prev) >= 1
    /\ Created # {}

\* C4: add_or_update_projects leaves id, url and estado of every record that
\* existed before the call as they were, and every record it creates has estado
\* "pendiente".
C4_UpsertKeepsEstado ==
    Upserted =>
        /\ \A i \in 1..Len(prev) :
              /\ projects[i].estado = prev[i].estado
              /\ projects[i].id = prev[i].id
              /\ projects[i].url = prev[i].url
        /\ \A i \in Created : projects[i].estado = "pendiente"

\* C4 witness: a call has changed the name of a record whose estado is not
\* "pendiente".
C4_Witness ==
    /\ Upserted
    /\ \E i \in 1..Len(prev) :
          /\ prev[i].estado \in {"en-proceso", "descargado", "error"}
          /\ projects[i].name # prev[i].name

\* C5: add_or_update_projects returns the number of records it created, which is
\* the number of distinct non-empty incoming urls the store did not hold before.
C5_ReturnsNewCount ==
    Upserted =>
        /\ ret = Len(projects) - Len(prev)
        /\ ret = Cardinality(argUrls \ UrlsOf(prev))

\* C5 witness: a call on stored urls only has returned 0 after updating a record.
C5_Witness ==
    /\ Upserted
    /\ argUrls # {}
    /\ ret = 0
    /\ \E i \in 1..Len(prev) : projects[i] # prev[i]

SpecDl == Init /\ [][DlNext]_vars

\* ------------------------------------------------------- downloader properties
Attempts == SelectSeq(dlLog, LAMBDA e : e \in TransferOutcomes)
Returned == dlpc = "returned"

\* C6: download_all_for_project makes at most max_retries transfer attempts, and a
\* call whose max_retries (>= 1) attempts were all cancelled has raised
\* DownloadCanceledError; with max_retries = 2 the second cancellation ends the call.
C6_AtMostMaxRetriesThenCanceled ==
    /\ Len(Attempts) = attempt
    /\ attempt <= max_retries
    /\ ( /\ max_retries >= 1
         /\ attempt = max_retries
         /\ \A i \in 1..Len(Attempts) : Attempts[i] = "Canceled" )
       => (Returned /\ dlResult = "DownloadCanceledError")

\* C6 witness: with max_retries = 2, two cancelled attempts have ended the call.
C6_Witness ==
    /\ max_retries = DefaultMaxRetries
    /\ Attempts = <<"Canceled", "Canceled">>
    /\ Returned

\* C7: in BuildingConnectedProjectDownloader an attempt that raises DiskFullError
\* is the last event of the call, which has raised DiskFullError; a DiskFullError on
\* the first attempt leaves exactly one attempt made.
C7_DiskFullRaisedAtOnce ==
    \A i \in 1..Len(dlLog) :
        (dlClass = "BuildingConnectedProjectDownloader" /\ dlLog[i] = "DiskFull") =>
            /\ i = Len(dlLog)
            /\ Returned
            /\ dlResult = "DiskFullError"
            /\ (i = 1 => attempt = 1)

\* C7 witness: the first attempt raised DiskFullError while attempts remained.
C7_Witness ==
    /\ dlClass = "BuildingConnectedProjectDownloader"
    /\ dlLog = <<"DiskFull">>
    /\ max_retries > 1

\* ------------------------------------------------------------ Phase 3 properties
RunEnded == pc \in {"finished", "stopped", "crashed"}
Processing == project \in 1..Len(projects)

\* C1: once a Phase 3 run has ended, in whatever way, no record of the store is
\* "en-proceso".
C1_NoInProgressAfterRun ==
    RunEnded => \A i \in 1..Len(projects) : projects[i].estado # "en-proceso"

\* C8: when the downloader has raised DiskFullError for the record being processed,
\* the error leaves process_single_project and the record's estado is not changed:
\* it is still the "en-proceso" set before the call.
C8_DiskFullPropagates ==
    (Processing /\ dlResult = "DiskFullError") =>
        /\ pc \in {"downloading", "crashed"}
        /\ pc = "crashed" => escaped = "DiskFullError"
        /\ projects[project].estado = "en-proceso"

\* C9: no exception other than DiskFullError leaves process_single_project, whether
\* it was raised by the directory creation, the metadata capture or the download.
C9_OnlyDiskFullEscapes ==
    /\ escaped \in {"none", "DiskFullError"}
    /\ pc = "crashed" => escaped = "DiskFullError"

CanceledAfterRetries ==
    /\ Processing
    /\ downloader = "ProjectFilesDownloader"
    /\ dlResult = "DownloadCanceledError"

\* C10: when the downloader has raised DownloadCanceledError after its retries, the
\* record ends as "error", the loop does not break on it, and the run ends only
\* when select_next_project finds no "pendiente" record.
C10_CanceledFailsAndContinues ==
    CanceledAfterRetries =>
        /\ pc \in {"downloading", "decide", "select", "mark", "finished"}
        /\ pc \in {"decide", "select"} =>
              projects[project].estado = "error" /\ success = "False"
        /\ pc = "finished" =>
              \A i \in 1..Len(projects) : projects[i].estado # "pendiente"

\* the attempt on the selected record is over: process_single_project has returned
\* or an exception has left it
AttemptEnded == Processing /\ (pc \in {"decide", "stopped", "crashed"})
CanceledCaught == CaughtAsCanceled(downloader, dlResult)

\* C11: an attempt that ended otherwise than by success or by a caught
\* DownloadCanceledError (metadata not ok, a falsy download result, an unexpected
\* exception) leaves the record "pendiente", and the loop is not entered again in
\* that run: main selects again only after a success or a record marked "error".
C11_OtherFailureRevertsAndStops ==
    /\ (AttemptEnded /\ success # "True" /\ ~CanceledCaught) =>
          projects[project].estado = "pendiente"
    /\ (Processing /\ pc = "select") =>
          (success = "True" \/ projects[project].estado = "error")

\* C12: when the attempt on a record is over, the record is "descargado" exactly
\* when the downloader returned True and metadata_ok is true, and otherwise it is
\* "pendiente" or "error".
C12_CompletedIffBothOk ==
    AttemptEnded =>
        /\ projects[project].estado = "descargado" <=> (dlResult = "True" /\ metadata_ok)
        /\ projects[project].estado \in {"descargado", "pendiente", "error"}

\* C13: after an attempt that returned False (record "error" or "pendiente") the
\* project directory does not exist; after an attempt that returned True it
\* exists and holds a file.
C13_DirGoneOrFilled ==
    (Processing /\ pc \in {"decide", "stopped"}) =>
        /\ success = "False" => projectDirs[project_id] = "absent"
        /\ success = "True" => projectDirs[project_id] \in {"txt", "files"}

AllowedMoves ==
    {<<"pendiente", "en-proceso">>, <<"en-proceso", "descargado">>,
     <<"en-proceso", "error">>, <<"en-proceso", "pendiente">>}

\* C14: every change of estado is one of pendiente -> en-proceso, en-proceso ->
\* descargado, en-proceso -> error, en-proceso -> pendiente; the selected record is
\* "pendiente" when it is selected; and a record that was "descargado" or "error"
\* before an operation (a load by a later run included) is so after it.
C14_OnlyDocumentedMoves ==
    /\ lastOp = "update_project_state" =>
          /\ Len(projects) = Len(prev)
          /\ \A i \in 1..Len(prev) :
                \/ projects[i].estado = prev[i].estado
                \/ <<prev[i].estado, projects[i].estado>> \in AllowedMoves
    /\ pc = "mark" => projects[project].estado = "pendiente"
    /\ \A i \in 1..Len(prev) :
          prev[i].estado \in {"descargado", "error"} =>
              i <= Len(projects) /\ projects[i].estado = prev[i].estado

\* C14 witness: a later run has loaded a store that holds a finished record and has
\* selected a record that comes after it.
C14_Witness ==
    /\ pc = "mark"
    /\ lastOp = "_load"
    /\ reloaded
    /\ \E i \in 1..Len(projects) :
          i < project /\ projects[i].estado \in {"descargado", "error"}

\* C15: preferred_id is set only until the first selection of a run; a selection
\* made with a preferred id takes the record of that id exactly when that record
\* is "pendiente"; a selection made without one takes the first "pendiente"
\* record of the list, or none when there is none.
C15_PreferredOnlyFirst ==
    /\ [](preferred_id # None => selected = {})
    /\ [][(pc = "select" /\ pc' # "select") =>
            LET hit == {i \in 1..Len(projects) : projects[i].id = preferred_id}
                pending == {i \in 1..Len(projects) : projects[i].estado = "pendiente"}
            IN /\ preferred_id' = None
               /\ preferred_id # None =>
                     (project' \in hit <=> \E i \in hit : i \in pending)
               /\ preferred_id = None =>
                     IF pending = {} THEN project' = 0
                     ELSE project' \in pending /\ \A j \in pending : project' <= j]_vars

\* C15 witness: the second selection of a run has taken the first record of the
\* list, after the first selection took a later one by its preferred id.
C15_Witness ==
    /\ pc = "mark"
    /\ Cardinality(selected) = 2
    /\ \E i \in selected : project < i

\* C16: a run that is at the head of its loop ends: it finds no record to select,
\* breaks, or is left by an exception.
C16_LoopTerminates == (pc = "select") ~> RunEnded

\* ------------------------------------------------------- durability properties
StateSet == lastOp = "update_project_state" /\ ret = 1
WriteFailed == lastWrite \in {"unchanged", "corrupt"}

\* C17: after update_project_state(id, s) has found the id, the record of that id
\* has estado s, _save was called once before the return, and if that write
\* succeeded the file holds the whole list, so the persisted estado is s.
C17_SetStatePersistsEagerly ==
    StateSet =>
        LET r == get_project_by_id(projects, argState.id)
        IN /\ r # 0
           /\ projects[r].estado = argState.estado
           /\ saves = 1
           /\ lastWrite = "ok" =>
                 /\ disk = [kind |-> "list", data |-> projects]
                 /\ Load(disk)[r].estado = argState.estado

\* C17 witness: a state change whose write succeeded, made after an earlier write
\* of the same run had failed.
C17_Witness ==
    /\ StateSet
    /\ lastWrite = "ok"
    /\ faults = MaxFaults
    /\ pc = "decide"
    /\ argState.estado = "descargado"

\* C18: constructing the store lets no exception out, and the list is the file's
\* list when the file holds one and the empty list when the file is absent,
\* unreadable, not JSON or not a list.
C18_LoadNeverRaises ==
    lastOp = "_load" =>
        /\ raised = "none"
        /\ disk.kind \in FileKinds
        /\ projects = IF disk.kind = "list" THEN disk.data ELSE <<>>

\* C18 witness: a process has started on a file that cannot be parsed, after a
\* process that held records.
C18_Witness ==
    /\ lastOp = "_load"
    /\ disk.kind \in {"corrupt", "unreadable", "nonlist"}
    /\ prev # <<>>
    /\ projects = <<>>

\* C19: when the write of update_project_state or add_or_update_projects has
\* failed, no exception reaches the caller and the list in memory holds the
\* mutation: the new estado, or the records added and the fields updated; the run
\* is not left by an exception of the store.
C19_WriteFailureKeepsMemory ==
    /\ raised = "none"
    /\ (WriteFailed /\ StateSet) =>
          projects[get_project_by_id(projects, argState.id)].estado = argState.estado
    /\ (WriteFailed /\ Upserted) =>
          /\ argUrls \subseteq UrlsOf(projects)
          /\ ret = Len(projects) - Len(prev)
    /\ (WriteFailed /\ pc = "crashed") => escaped = "OSError"

\* C19 witness: the write of "descargado" failed, the file still says
\* "en-proceso", and the run is deciding on the list in memory.
C19_Witness ==
    /\ WriteFailed
    /\ StateSet
    /\ pc = "decide"
    /\ projects[project].estado = "descargado"
    /\ disk.kind = "list"
    /\ disk.data[project].estado = "en-proceso"

\* C20: one add_or_update_projects call makes at most one _save call, and it makes
\* one, which stores the resulting list, whenever it added a record or changed
\* a field of an existing one.
C20_OneSavePerUpsert ==
    Upserted =>
        /\ saves <= 1
        /\ saves = 0 <=> lastWrite = "none"
        /\ projects # prev =>
              /\ saves = 1
              /\ disk = [kind |-> "list", data |-> projects]

\* C20 witness: a call with two items, one of a new url and one that changed a
\* stored record, has saved once.
C20_Witness ==
    /\ Upserted
    /\ Cardinality(argUrls) = 2
    /\ ret = 1
    /\ \E i \in 1..Len(prev) : projects[i] # prev[i]
    /\ saves = 1

\* ----------------------------------------------------- properties of the records
\* C21: no operation removes a record: the list never gets shorter, every record
\* that was in the list before an operation is at its position with its url after
\* it, and a record whose attempt failed is in the list as "pendiente" or "error".
C21_RecordsNeverRemoved ==
    /\ Len(projects) >= Len(prev)
    /\ \A i \in 1..Len(prev) : projects[i].url = prev[i].url
    /\ (AttemptEnded /\ success # "True") =>
          projects[project].estado \in {"pendiente", "error"}

InProgress == {i \in 1..Len(projects) : projects[i].estado = "en-proceso"}
InRun == pc \notin {"idle", "login_failed"}
\* the run found no "en-proceso" record: records it did not select keep their estado
StartedClean == \A i \in InProgress : i \in selected

\* C22: in a run that started on a store without "en-proceso" records, at most one
\* record is "en-proceso", it is the selected one, and no record is "en-proceso"
\* when main selects the next one.
C22_OneInProgress ==
    (InRun /\ StartedClean) =>
        /\ Cardinality(InProgress) <= 1
        /\ InProgress \subseteq {project}
        /\ pc \in {"select", "mark"} => InProgress = {}

\* C22 witness: the second record of a run is "en-proceso" and the first one has
\* left that estado.
C22_Witness ==
    /\ InRun /\ StartedClean
    /\ pc = "metadata"
    /\ Cardinality(selected) = 2
    /\ InProgress = {project}

\* C24: main ends a run by "no project selected" only when no record is
\* "pendiente": while one is, a record is selected, also on the first iteration
\* with a preferred id whose record is absent or not "pendiente".
C24_SelectsWhilePending ==
    pc = "finished" => \A i \in 1..Len(projects) : projects[i].estado # "pendiente"

\* C25: an add_or_update_projects call that leaves the list as it was (every item
\* has a stored url and the stored name and due_date, or no url) calls _save not
\* at all.
C25_NoWriteWhenUnchanged ==
    (Upserted /\ projects = prev) => (saves = 0 /\ lastWrite = "none")

\* C30: with metadata_ok false the downloader is still called; after that call a
\* caught DownloadCanceledError leaves the record "error", and a True result
\* leaves it "pendiente" with process_single_project returning False.
C30_DownloadWithoutMetadata ==
    /\ []((Processing /\ pc = "decide" /\ ~metadata_ok /\ dlpc = "returned") =>
            /\ CanceledCaught => projects[project].estado = "error"
            /\ dlResult = "True" =>
                  projects[project].estado = "pendiente" /\ success = "False")
    /\ [][(pc = "download" /\ ~metadata_ok) =>
            (pc' = "downloading" /\ dlpc' # "idle")]_vars

\* C23: while build_project_paths, the metadata extractor or the downloader is at
\* work on a record, the file holds that record as "en-proceso" (no write fails).
C23_InProgressPersistedFirst ==
    (Processing /\ pc \in {"paths", "metadata", "download", "downloading"}) =>
        /\ disk.kind = "list"
        /\ project <= Len(disk.data)
        /\ disk.data[project].estado = "en-proceso"

\* ------------------------------------------------ the downloader's retry loop
\* C26: a transfer attempt that returned True is the last event of the call, no
\* attempt and no wait follows it, and the call has returned True, also when the
\* attempt was a retry after a cancelled one.
C26_SuccessReturnsAtOnce ==
    \A i \in 1..Len(dlLog) :
        dlLog[i] = "True" =>
            /\ i = Len(dlLog)
            /\ Returned
            /\ dlResult = "True"

\* C26 witness: a cancelled attempt, the wait, and a second attempt that returned
\* True with an attempt to spare.
C26_Witness ==
    /\ dlLog = <<"Canceled", "wait", "True">>
    /\ attempt < max_retries
    /\ Returned
    /\ dlResult = "True"

\* C27: a transfer attempt that returned False without raising is the last event
\* of the call, which has returned False: no wait and no further attempt.
C27_FailureReturnsAtOnce ==
    \A i \in 1..Len(dlLog) :
        dlLog[i] = "False" =>
            /\ i = Len(dlLog)
            /\ Returned
            /\ dlResult = "False"

\* C27 witness: the first of three permitted attempts returned False.
C27_Witness ==
    /\ dlLog = <<"False">>
    /\ attempt = 1
    /\ max_retries = MaxRetriesBound
    /\ Returned
    /\ dlResult = "False"

\* C28: an attempt other than the first comes directly after one wait that comes
\* directly after a cancelled attempt, a wait comes only directly after a cancelled
\* attempt, and DownloadCanceledError is raised only when the attempt numbered
\* max_retries was cancelled.
C28_RetryOnlyAfterCancel ==
    /\ \A i \in 1..Len(dlLog) :
          /\ (dlLog[i] \in TransferOutcomes /\ i > 1) =>
                (i >= 3 /\ dlLog[i - 1] = "wait" /\ dlLog[i - 2] = "Canceled")
          /\ dlLog[i] \in {"wait", "wait-raised"} =>
                (i > 1 /\ dlLog[i - 1] = "Canceled")
    /\ dlResult = "DownloadCanceledError" =>
          /\ attempt = max_retries
          /\ dlLog # <<>>
          /\ dlLog[Len(dlLog)] = "Canceled"

\* C28 witness: three permitted attempts, each cancelled, two waits between them,
\* and the error raised after the third.
C28_Witness ==
    /\ max_retries = MaxRetriesBound
    /\ dlLog = <<"Canceled", "wait", "Canceled", "wait", "Canceled">>
    /\ dlResult = "DownloadCanceledError"

\* C29: the call ends with True, False, None, DownloadCanceledError or
\* DiskFullError and with nothing else; an attempt or a wait that raised
\* another exception is the last event of a call that has returned False, and so
\* is a navigation that raised.
C29_OtherFailuresReturnFalse ==
    /\ dlResult \in {"none", "True", "False", "None", "DownloadCanceledError",
                      "DiskFullError"}
    /\ \A i \in 1..Len(dlLog) :
          dlLog[i] \in {"Error", "wait-raised"} =>
              /\ i = Len(dlLog)
              /\ Returned
              /\ dlResult = "False"
    /\ (Returned /\ dlLog = <<>> /\ max_retries > 0) => dlResult = "False"

\* C29 witness: the retry after a cancelled attempt raised another exception and
\* the call returned False.
C29_Witness ==
    /\ dlLog = <<"Canceled", "wait", "Error">>
    /\ Returned
    /\ dlResult = "False"

\* ------------------------------------------------------ the loop's decisions
\* C31: after an attempt that returned False, main continues with the next
\* selection if the store holds a record with the processed record's id and that
\* record's estado is "error", and breaks on any other estado and when
\* get_project_by_id finds no record.
C31_SkipOrAbortFromStore ==
    [][(pc = "decide" /\ success = "False") =>
          IF IsInt(projects[project].id) /\ projects[project].estado = "error"
          THEN pc' = "select"
          ELSE pc' = "stopped"]_vars

\* C31 witness: the attempt on a record without an integer id returned False,
\* get_project_by_id found nothing, and main broke.
C31_Witness ==
    /\ Processing
    /\ pc = "stopped"
    /\ success = "False"
    /\ ~IsInt(projects[project].id)

\* C35: an iteration after which main continues has moved the processed record out
\* of "pendiente", and select_next_project returns no record that this run
\* selected before, whether the records have integer ids or not.
C35_PendingDecreases ==
    /\ [][(pc = "decide" /\ pc' = "select") =>
            projects[project].estado # "pendiente"]_vars
    /\ [][(pc = "select" /\ pc' = "mark") => project' \notin selected]_vars

\* --------------------------------------------------- properties of legacy records
\* C32: an add_or_update_projects call gives every legacy record whose url it
\* ingests an integer id greater than every id the store held before the call and
\* held by no other record after it; every other record that existed keeps its id
\* (or its lack of one).
C32_LegacyIdBackfilled ==
    Upserted =>
        \A i \in 1..Len(prev) :
            IF ~IsInt(prev[i].id) /\ prev[i].url \in argUrls
            THEN /\ IsInt(projects[i].id)
                 /\ \A k \in 1..Len(prev) : prev[k].id < projects[i].id
                 /\ \A j \in 1..Len(projects) : j # i => projects[j].id # projects[i].id
            ELSE projects[i].id = prev[i].id

\* C32 witness: one call has given ids to two legacy records.
C32_Witness ==
    /\ Upserted
    /\ Len(prev) = 2
    /\ \A i \in 1..2 : ~IsInt(prev[i].id) /\ IsInt(projects[i].id)

\* ---------------------------------------------------------- the folder's name
\* the slug as the docstrings give it: the first n words joined by "-", without
\* the characters that are not kept
RECURSIVE JoinWords(_)
JoinWords(ws) ==
    IF Len(ws) = 1 THEN ws[1] ELSE ws[1] \o <<"-">> \o JoinWords(Tail(ws))
FirstWords(ws, n) == SubSeq(ws, 1, IF Len(ws) < n THEN Len(ws) ELSE n)
SlugOfFirstWords(r, n) ==
    LET ws == Words(IF r = <<>> THEN UnnamedProject ELSE r)
        kept == IF ws = <<>> THEN <<>> ELSE SelectSeq(JoinWords(FirstWords(ws, n)), Kept)
    IN IF kept = <<>> THEN ProjectSlug ELSE kept
Named == slug # <<>>

\* C33: the slug of the folder is made of at most the first 2 words of the name,
\* joined by "-".
C33_SlugOfTwoWords == Named => slug = SlugOfFirstWords(raw, 2)

\* C34: every record main selects is "pendiente" when it is selected, and a record
\* the run has not selected keeps its estado at every step of the run; so a record
\* that is not "pendiente" when the run starts ("en-proceso" since a run that
\* crashed, for one) is not selected and not changed in that run.
C34_OnlyPendingSelected ==
    /\ [][(pc = "select" /\ pc' = "mark") =>
            projects[project'].estado = "pendiente"]_vars
    /\ [][(InRun /\ InRun') =>
            /\ Len(projects') = Len(projects)
            /\ \A i \in 1..Len(projects) :
                  i \notin selected' => projects'[i].estado = projects[i].estado]_vars

\* C34 witness: a run has processed a record and found nothing more to select,
\* with a record it never selected still "en-proceso".
C34_Witness ==
    /\ pc = "finished"
    /\ selected # {}
    /\ \E i \in 1..Len(projects) : i \notin selected /\ projects[i].estado = "en-proceso"

\* C36: a step of a run leaves every record but the processed one as it was and
\* changes of the processed one nothing but its estado; an update_project_state
\* that found its id has changed the estado of a record with that id and nothing
\* else, and one that found no record has changed neither the list nor the file.
C36_OnlyEstadoOfOneRecord ==
    /\ [][(InRun /\ InRun') =>
            /\ Len(projects') = Len(projects)
            /\ \A i \in 1..Len(projects) :
                  IF i = project
                  THEN [projects'[i] EXCEPT !.estado = projects[i].estado] = projects[i]
                  ELSE projects'[i] = projects[i]]_vars
    /\ [][(lastOp' = "update_project_state" /\ ret' = 1 /\ projects' # projects) =>
            \E i \in 1..Len(projects) :
                /\ projects[i].id = argState'.id
                /\ projects' = [projects EXCEPT ![i].estado = argState'.estado]]_vars
    /\ [][(lastOp' = "update_project_state" /\ ret' = 0) =>
            (projects' = projects /\ disk' = disk)]_vars

\* C36 witness: in a store of two records the last update_project_state of an
\* attempt has changed the processed record.
C36_Witness ==
    /\ Processing
    /\ pc = "decide"
    /\ Len(projects) = 2
    /\ lastOp = "update_project_state"
    /\ ret = 1
    /\ projects # prev

\* C37: after every _save that succeeded, and until the file is changed from
\* outside, the file holds the list of the process in full, also the changes whose
\* own _save had failed.
C37_FileIsListAfterWrite ==
    (lastWrite = "ok" /\ lastOp # "file changed") =>
        (disk.kind = "list" /\ disk.data = projects)

\* C37 witness: an update_project_state began on a list that a failed write had
\* left unsaved, and its write has made the file equal to the list.
C37_Witness ==
    /\ lastOp = "update_project_state"
    /\ unsaved
    /\ lastWrite = "ok"
    /\ disk.data = projects

\* C38: a download_all_for_project call that has ended has returned True or False
\* or raised DownloadCanceledError or DiskFullError, whatever max_retries and the
\* transfers were; with max_retries = 0 it has made no attempt and returned False.
C38_FourOutcomes ==
    Returned =>
        /\ dlResult \in {"True", "False", "DownloadCanceledError", "DiskFullError"}
        /\ max_retries = 0 => (attempt = 0 /\ dlLog = <<>> /\ dlResult = "False")

\* ------------------------------------------------- properties of the incoming items
\* C39: an add_or_update_projects call leaves no record without url; the items
\* without url create nothing, are not counted and take no id (the records the
\* call created are as many as its new urls and have the ids that follow the
\* greatest id of the list); a call of such items only changes nothing and does
\* not save.
C39_ItemsWithoutUrlIgnored ==
    Upserted =>
        /\ \A i \in 1..Len(projects) : projects[i].url # 0
        /\ ret = Cardinality(argUrls \ UrlsOf(prev))
        /\ Len(projects) = Len(prev) + ret
        /\ \A i \in Created : projects[i].id = MaxId(prev) + (i - Len(prev))
        /\ argUrls = {} => (projects = prev /\ ret = 0 /\ saves = 0)

\* C39 witness: a call with an item without url and an item with a new url has
\* created one record.
C39_Witness ==
    /\ Upserted
    /\ \E i \in 1..Len(argItems) : argItems[i].url = 0
    /\ ret = 1
    /\ Len(prev) = 1
    /\ Len(projects) = 2

\* the last non-empty value that the items for url u carry in field f(item), or
\* old when they carry none
RECURSIVE LastGiven(_, _, _, _)
LastGiven(items, u, f(_), old) ==
    IF items = <<>> THEN old
    ELSE LET p == Head(items)
         IN LastGiven(Tail(items), u, f,
                      IF p.url = u /\ f(p) # 0 THEN f(p) ELSE old)
NameOf(p) == p.name
DueDateOf(p) == p.due_date

\* C40: after add_or_update_projects a record that existed has the last non-empty
\* name (due_date) the call's items carry for its url, and the name (due_date) it
\* had when they carry none: an empty or absent field never replaces a stored one.
C40_EmptyFieldKeepsStored ==
    Upserted =>
        \A i \in 1..Len(prev) :
            /\ projects[i].name = LastGiven(argItems, prev[i].url, NameOf, prev[i].name)
            /\ projects[i].due_date =
                  LastGiven(argItems, prev[i].url, DueDateOf, prev[i].due_date)

\* C40 witness: an item with an empty name and a due_date was ingested for a
\* record with a name and no due_date: the name is kept, the due_date is set.
C40_Witness ==
    /\ Upserted
    /\ Len(argItems) = 1
    /\ argItems[1].name = 0
    /\ argItems[1].due_date # 0
    /\ \E i \in 1..Len(prev) :
          /\ prev[i].url = argItems[1].url
          /\ prev[i].name # 0
          /\ prev[i].due_date = 0
          /\ projects[i].name = prev[i].name
          /\ projects[i].due_date = argItems[1].due_date

====
